---- MODULE Spec2Model ----
(***************************************************************************)
(* Model of node-test-jest-compat: the registry (retry counts per describe *)
(* block, only-mode flag, current test context, tracked mocks and spies,   *)
(* mocked modules), the test/describe façade, the retry loop around a test *)
(* body, spies and module mocks.                                           *)
(***************************************************************************)
EXTENDS Integers, Sequences, FiniteSets, TLC

\* ------------------------------------------------------------------ bounds
MaxRetry == 2      \* retryTimes(count) draws count from 0..MaxRetry
MaxDepth == 2      \* describe blocks on the stack at once
MaxSpies == 2      \* spies the mock library creates on one member
MaxRestores == 2   \* invocations of one restore capability
MaxMocks == 2      \* substitutions the host applies for one module
MaxTime == 2       \* virtual time the tests advance the fake timers to

RetryCounts == 0..MaxRetry
SuiteNames == {"A", "B"}
TestNames == <<"t1", "t2">>
\* The members (object.methodName) a test file spies on
Members == {"mockObj.method", "mockObj.other"}
\* The module identifiers a test file mocks
Modules == {"fs", "path"}
\* The callbacks a test file schedules: callback1, when invoked, schedules
\* callback2 after NestedDelay
Callbacks == {"callback", "callback1", "callback2"}
NestedDelay == 1
\* The delays a test file passes to setTimeout
Delays == {1, 2}

\* ------------------------------------------------------------ JS values
\* Arguments of the façade calls: a callable, an options object, a number,
\* a string, null or undefined.
Fn(id) == [type |-> "function", id |-> id, opts |-> {}, num |-> 0]
Obj(o) == [type |-> "object", id |-> "", opts |-> {o}, num |-> 0]
Num(n) == [type |-> "number", id |-> "", opts |-> {}, num |-> n]
Str == [type |-> "string", id |-> "", opts |-> {}, num |-> 0]
Null == [type |-> "null", id |-> "", opts |-> {}, num |-> 0]
Undefined == [type |-> "undefined", id |-> "", opts |-> {}, num |-> 0]
Bool(b) == [type |-> "boolean", id |-> "", opts |-> {}, num |-> IF b THEN 1 ELSE 0]

IsFunction(v) == v.type = "function"
\* typeof v === 'object' && v !== null
IsObject(v) == v.type = "object"
IsNumber(v) == v.type = "number"
OptsOf(v) == CHOOSE o \in v.opts : TRUE

\* An options object: the host's flags and an optional timeout (a set of at
\* most one number: {} when the key is absent).
Options(only, skip, todo, timeout) ==
  [only |-> only, skip |-> skip, todo |-> todo, timeout |-> timeout]
EmptyOptions == Options(FALSE, FALSE, FALSE, {})

\* The body handed to the host: the wrapper around fn, or nothing.
NoBody == [wraps |-> "none"]
Wrapped(fn) == [wraps |-> fn.id]
HostCall(name, options, body) == [name |-> name, options |-> options, body |-> body]

\* ------------------------------------------------------------ variables
VARIABLES
  describeStack,       \* registry: stack of [name, retryCount]
  currentRetryCount,   \* registry: process-wide default retry count
  onlyMode,            \* registry: only-mode flag
  currentTestContext,  \* registry: single slot, 0 = null, else a test's handle
  frames,              \* suite bodies currently executing (innermost last)
  hostTests,           \* host: the tests registered, in order
  regRetry,            \* history, per test: getCurrentRetryCount() when it was
                       \* registered and the suite whose body registered it
  input,               \* a façade call: entry point and positional arguments
  delegated,           \* the call the façade made to the host for input
  runs,                \* per test: the state of its execution
  snapshotCall,        \* the last toMatchSnapshot: the test and attempt whose
                       \* body evaluated it, and the context it read
  onlyInvoked,         \* history: the last .only entry point invoked, else "none"
  sinceSet             \* history: the count of the last retryTimes when no
                       \* push or pop has happened since, else -1
VARIABLES
  createdMocks,        \* registry: the set of every mock and spy registered
  spiedFunctions,      \* registry: spy -> what registerSpy recorded for it
  members,             \* the spied-on objects: member -> what it holds now
  restoreCalls,        \* history, per spy: invocations of its mockRestore
  lastMockOp,          \* history: the last operation on mocks
  sweepCalls           \* history: the last clearAllMocks or resetAllMocks, and
                       \* per mock the invocations it made of the capability

mockVars == <<createdMocks, spiedFunctions, members, restoreCalls, lastMockOp,
              sweepCalls>>

VARIABLES
  mockedModules,       \* registry: the Map module -> mock context, as the
                       \* sequence of its entries in insertion order
  moduleCache,         \* registry: the Map module -> cached value
  applied,             \* host, per module: substitutions applied so far
  substitutions,       \* host: the contexts applied and not yet restored
  ctxRestores,         \* history, per context: invocations of its restore
  lastModuleOp         \* history: the last module operation and its outcome

moduleVars == <<mockedModules, moduleCache, applied, substitutions, ctxRestores,
                lastModuleOp>>

VARIABLES
  isFaking,            \* façade: the isFaking flag of the FakeTimers object
  mockTimers,          \* host mock timers: enabled, the APIs faked, virtual now
  timers,              \* per callback: whether and how it is scheduled, when
                       \* it runs, how often it has been invoked
  lastCall,            \* history: the last call of the jest API that returns
                       \* a value or warns, and its outcome
  seed                 \* seed module: SEED

timerVars == <<isFaking, mockTimers, timers>>
apiVars == <<lastCall, seed>>

\* The registrations, the running tests and the façade call
testVars == <<describeStack, currentRetryCount, onlyMode, currentTestContext,
              frames, hostTests, regRetry, runs, snapshotCall, onlyInvoked,
              sinceSet, input, delegated>>

vars == <<testVars, mockVars, moduleVars, timerVars, apiVars>>

\* ------------------------------------------------------------- registry
\* retryRegistry.getCurrentRetryCount
GetCurrentRetryCount(stack, global) ==
  IF Len(stack) > 0 THEN stack[Len(stack)].retryCount ELSE global

\* A setGlobalRetryCount that wrote the count into every entry
SetEveryRetryCount(stack, count) ==
  [k \in 1..Len(stack) |-> [stack[k] EXCEPT !.retryCount = count]]

\* retryRegistry.setGlobalRetryCount: the stack after the call (the default
\* itself becomes count)
SetGlobalRetryCount(stack, count) ==
  IF Len(stack) > 0
    THEN [stack EXCEPT ![Len(stack)].retryCount = count]
    ELSE stack

\* Faulty variant of pushDescribeBlock: a new block takes the process-wide default, not its parent's count
PushDescribeBlockFromDefault(stack, global, name) ==
  Append(stack, [name |-> name, retryCount |-> global])

\* retryRegistry.pushDescribeBlock
PushDescribeBlock(stack, global, name) ==
  Append(stack, [name |-> name, retryCount |-> GetCurrentRetryCount(stack, global)])

\* A pop that removed nothing
PopNothing(stack) ==
  stack

\* retryRegistry.popDescribeBlock (Array.prototype.pop: no-op when empty)
PopDescribeBlock(stack) ==
  IF Len(stack) = 0 THEN stack ELSE SubSeq(stack, 1, Len(stack) - 1)

\* filterRegistry.setOnlyMode
SetOnlyMode(flag, enabled) == enabled

\* filterRegistry.isOnlyMode
IsOnlyMode(flag) == flag

\* Faulty variant of setCurrentTestContext: the slot is never written
NeverSetTestContext(slot, context) == slot

\* Faulty variant of setCurrentTestContext: the slot keeps the first context
KeepFirstTestContext(slot, context) == IF slot = 0 THEN context ELSE slot

\* testContextRegistry.setCurrentTestContext
SetCurrentTestContext(slot, context) == context

\* ---------------------------------------------------------------- façade
\* JS truthiness of an argument
Truthy(v) ==
  \/ v.type \in {"function", "object", "string"}
  \/ v.type \in {"number", "boolean"} /\ v.num # 0

\* Faulty variant of testFunction: the timeout of test(name, fn, timeout) is dropped
TestFunctionDropsTimeout(name, fnOrOptions, maybeTimeout) ==
  LET fn == IF IsFunction(fnOrOptions) THEN fnOrOptions
            ELSE IF IsObject(fnOrOptions) /\ IsFunction(maybeTimeout) THEN maybeTimeout
            ELSE Undefined
      options == IF IsObject(fnOrOptions) THEN OptsOf(fnOrOptions) ELSE EmptyOptions
  IN HostCall(name, options, IF IsFunction(fn) THEN Wrapped(fn) ELSE NoBody)

\* testFunction(name, fnOrOptions, maybeTimeout): the call made to the host
TestFunction(name, fnOrOptions, maybeTimeout) ==
  LET fn == IF IsFunction(fnOrOptions) THEN fnOrOptions
            ELSE IF IsObject(fnOrOptions) /\ IsFunction(maybeTimeout) THEN maybeTimeout
            ELSE Undefined
      options ==
        IF IsFunction(fnOrOptions)
          THEN IF IsNumber(maybeTimeout)
                 THEN [EmptyOptions EXCEPT !.timeout = {maybeTimeout.num}]
                 ELSE EmptyOptions
        ELSE IF IsObject(fnOrOptions) THEN OptsOf(fnOrOptions)
        ELSE EmptyOptions
  IN HostCall(name, options, IF IsFunction(fn) THEN Wrapped(fn) ELSE NoBody)

\* testFunction.only(name, fn, timeout)
TestOnly(name, fn, timeout) ==
  LET options == IF IsNumber(timeout)
                   THEN Options(TRUE, FALSE, FALSE, {timeout.num})
                   ELSE Options(TRUE, FALSE, FALSE, {})
  IN TestFunction(name, Obj(options), fn)

\* testFunction.skip(name, fn)
TestSkip(name, fn) == TestFunction(name, Obj(Options(FALSE, TRUE, FALSE, {})), fn)

\* testFunction.todo(name)
TestTodo(name) == TestFunction(name, Obj(Options(FALSE, FALSE, TRUE, {})), Undefined)

\* testFiltering.enhanceTestFunction(testFn).only(name, options = {}, fn),
\* testFn being the test function above: `{...options, only: true}` is
\* handed on
EnhancedTestOnly(name, options, fn) ==
  LET body == IF IsFunction(options) THEN options ELSE fn
      given == IF IsObject(options) THEN OptsOf(options) ELSE EmptyOptions
  IN TestFunction(name, Obj([given EXCEPT !.only = TRUE]), body)

TestEntries == {"test", "only", "skip", "todo"}
\* The .only entry points: of the test and describe functions, and the ones
\* testFiltering installs
OnlyEntries == {"only", "enhanced.only"}

\* The host call a test entry point makes for positional arguments a2, a3
TestCall(entry, name, a2, a3) ==
  CASE entry = "test" -> TestFunction(name, a2, a3)
    [] entry = "only" -> TestOnly(name, a2, a3)
    [] entry = "skip" -> TestSkip(name, a2)
    [] entry = "todo" -> TestTodo(name)
    [] entry = "enhanced.only" -> EnhancedTestOnly(name, a2, a3)

\* describeFunction(name, fnOrOptions, fn): the call made to the host; the
\* wrapper exists whenever the body argument is truthy
DescribeFunction(name, fnOrOptions, fn) ==
  LET body == IF IsFunction(fnOrOptions) THEN fnOrOptions ELSE fn
      options == IF IsObject(fnOrOptions) THEN OptsOf(fnOrOptions) ELSE EmptyOptions
  IN HostCall(name, options,
              IF IsFunction(body) THEN Wrapped(body)
              ELSE IF Truthy(body) THEN [wraps |-> "noncallable"]
              ELSE NoBody)

DescribeOnly(name, fn) == DescribeFunction(name, Obj(Options(TRUE, FALSE, FALSE, {})), fn)
DescribeSkip(name, fn) == DescribeFunction(name, Obj(Options(FALSE, TRUE, FALSE, {})), fn)
DescribeTodo(name, fn) == DescribeFunction(name, Obj(Options(FALSE, FALSE, TRUE, {})), fn)

\* testFiltering.enhanceDescribeFunction(describeFn).only(name, fn),
\* describeFn being the describe function above
EnhancedDescribeOnly(name, fn) ==
  DescribeFunction(name, Obj(Options(TRUE, FALSE, FALSE, {})), fn)

DescribeEntries == {"describe", "only", "skip", "todo"}

DescribeCall(entry, name, a2, a3) ==
  CASE entry = "describe" -> DescribeFunction(name, a2, a3)
    [] entry = "only" -> DescribeOnly(name, a2)
    [] entry = "skip" -> DescribeSkip(name, a2)
    [] entry = "todo" -> DescribeTodo(name, a2)
    [] entry = "enhanced.only" -> EnhancedDescribeOnly(name, a2)

\* ---------------------------------------------------------------- mocks
\* What a member of a spied-on object can hold: the implementation it had
\* before any spying, or a spy the mock library installed (the gen-th spy the
\* library created on that member).
Original(member) == [kind |-> "original", member |-> member, gen |-> 0]
Spy(member, gen) == [kind |-> "spy", member |-> member, gen |-> gen]
Spies == { Spy(member, gen) : member \in Members, gen \in 1..MaxSpies }

\* new Map()
EmptyMap == [spy \in {} |-> Original("")]
\* Map.prototype.set
MapSet(map, key, value) ==
  [k \in DOMAIN map \cup {key} |-> IF k = key THEN value ELSE map[k]]

\* mockRegistry.registerSpy: the entry of the spy is written
RegisterSpy(spied, spy, original) == MapSet(spied, spy, [original |-> original])

\* Faulty variant of restoreAllMocks: the map is not cleared
SpiedKeptAfterRestoreAll(spied) == spied

\* mockRegistry.restoreAllMocks: the map once every entry has been visited
SpiedAfterRestoreAll(spied) == EmptyMap

\* What registerMock is given besides spies: the mock function jest.fn
\* returns, and an object that has neither mockClear nor mockReset
MockFn == [kind |-> "fn", member |-> "mockFn", gen |-> 0]
PlainObject == [kind |-> "object", member |-> "plain", gen |-> 0]

\* mockRegistry.registerMock: Set.prototype.add
RegisterMock(created, mock) == created \cup {mock}

\* A sweep that visited only the spies the map still holds
SweepOfSpied(created, spied) ==
  [mock \in created |-> IF mock \in DOMAIN spied THEN 1 ELSE 0]

\* mockRegistry.clearAllMocks / resetAllMocks: createdMocks.forEach visits
\* every member once and invokes the capability where typeof finds a function
\* (the mocks of the library have mockClear and mockReset)
SweepOfCreated(created, spied) ==
  [mock \in created |-> IF mock.kind \in {"spy", "fn"} THEN 1 ELSE 0]

\* A spy (or a jest.fn mock) as a value: a function that carries the
\* marker property _isMockFunction
MockValue(spy) ==
  [type |-> "function", id |-> spy.member, opts |-> {[isMockFunction |-> TRUE]},
   num |-> spy.gen]

\* fn._isMockFunction is truthy (undefined on values without the property)
HasMockMarker(fn) ==
  \E properties \in fn.opts :
    "isMockFunction" \in DOMAIN properties /\ properties.isMockFunction

\* mockRegistry.isMockFunction: `fn && !!fn._isMockFunction`
IsMockFunction(fn) == IF Truthy(fn) THEN Bool(HasMockMarker(fn)) ELSE fn

\* spyOn of the mock library: a member that holds a spy keeps it and that
\* spy is returned, otherwise a new spy is installed
LibrarySpyOn(held, created) ==
  IF held.kind = "spy"
    THEN held
    ELSE Spy(held.member,
             Cardinality({ spy \in created : spy.member = held.member }) + 1)

\* -------------------------------------------------------------- modules
\* The context the host returns for the gen-th substitution of a module
Context(module, gen) == [module |-> module, gen |-> gen]
Contexts == { Context(module, gen) : module \in Modules, gen \in 1..MaxMocks }

\* Faulty variant of hasMockedModule: no module is seen as mocked
HasNoMockedModule(mocked, moduleName) == FALSE

\* moduleRegistry.hasMockedModule
HasMockedModule(mocked, moduleName) ==
  \E i \in 1..Len(mocked) : mocked[i].module = moduleName

\* moduleRegistry.getMockedModule, for a module that has an entry
GetMockedModule(mocked, moduleName) ==
  mocked[CHOOSE i \in 1..Len(mocked) : mocked[i].module = moduleName].context

\* moduleRegistry.registerMockedModule (the module has no entry: mockModule
\* has returned early otherwise)
RegisterMockedModule(mocked, moduleName, mockContext) ==
  Append(mocked, [module |-> moduleName, context |-> mockContext])

\* Faulty variant of delete: the entry stays
KeepMockedModule(mocked, moduleName) == mocked

\* mockedModules.delete(moduleName)
DeleteMockedModule(mocked, moduleName) ==
  SelectSeq(mocked, LAMBDA entry : entry.module # moduleName)

\* What a factory passed to mock can do; "none": no factory was passed
Factories == {"none", "exports", "nullish", "throws"}

\* The outcome of a module operation: what it called, logged, threw
ModuleOp(op, moduleName, factory, result, factoryCalled, hostCalled, logged, thrown) ==
  [op |-> op, module |-> moduleName, factory |-> factory, result |-> result,
   factoryCalled |-> factoryCalled, hostCalled |-> hostCalled,
   logged |-> logged, thrown |-> thrown]
NoModuleOp == ModuleOp("none", "", "none", "", FALSE, FALSE, "", "none")

\* Faulty variant of the catch block: the error is logged and swallowed
MockModuleCatchSwallows(moduleName, error) == [logged |-> moduleName, thrown |-> "none"]

\* mockModule's catch block: console.error with the module name, rethrow
MockModuleCatch(moduleName, error) == [logged |-> moduleName, thrown |-> error]

\* ---------------------------------------------------------- fake timers
\* private defaultApis
DefaultApis == {"setTimeout", "setInterval", "setImmediate", "Date"}

\* The host's mock timers, not enabled
TimersDisabled == [enabled |-> FALSE, apis |-> {}, now |-> 0]

\* A callback and its timer. status: "unscheduled", "pending" (in the host's
\* queue of virtual timers, due at runAt), "real" (scheduled with the real
\* setTimeout), "cleared" (dropped with the queue), "done" (its timer fired).
\* setAt is the virtual time when it was scheduled, calls its invocations.
Unscheduled ==
  [status |-> "unscheduled", setAt |-> 0, delay |-> 0, runAt |-> 0, calls |-> 0]

\* A reset that left the queue of virtual timers alone
QueueKept(ts, status) ==
  ts

\* mock.timers.reset() on enabled timers: the queue of virtual timers is
\* dropped. status records the caller: "cleared" for clearAllTimers, "reset"
\* for useFakeTimers and useRealTimers.
QueueCleared(ts, status) ==
  [callback \in Callbacks |->
     IF ts[callback].status = "pending"
       THEN [ts[callback] EXCEPT !.status = status] ELSE ts[callback]]

\* setTimeout(callback, delay) under the host's mock timers mt: a virtual
\* timer when setTimeout is faked, a real one otherwise
Scheduled(mt, delay) ==
  IF mt.enabled /\ "setTimeout" \in mt.apis
    THEN [status |-> "pending", setAt |-> mt.now, delay |-> delay,
          runAt |-> mt.now + delay, calls |-> 0]
    ELSE [status |-> "real", setAt |-> mt.now, delay |-> delay,
          runAt |-> 0, calls |-> 0]

\* What invoking the callbacks in fired does, under mock timers mt: each is
\* called once, and callback1 schedules callback2
Invoked(mt, ts, fired) ==
  [callback \in Callbacks |->
     IF callback \in fired
       THEN [ts[callback] EXCEPT !.status = "done", !.calls = @ + 1]
     ELSE IF callback = "callback2" /\ "callback1" \in fired
             /\ ts[callback].status = "unscheduled"
       THEN Scheduled(mt, NestedDelay)
     ELSE ts[callback]]

\* A tick that fired every pending timer, due or not
HostTickEarly(mt, ts, ms) ==
  Invoked([mt EXCEPT !.now = @ + ms], ts,
          { callback \in Callbacks : ts[callback].status = "pending" })

\* mock.timers.tick(ms) on enabled timers: now is advanced, then the timers
\* due by then fire
HostTick(mt, ts, ms) ==
  LET advanced == [mt EXCEPT !.now = @ + ms]
  IN Invoked(advanced, ts,
             { callback \in Callbacks :
                 ts[callback].status = "pending" /\ ts[callback].runAt <= advanced.now })

\* mock.timers.tick(1), steps times over
RECURSIVE HostTicks(_, _, _)
HostTicks(mt, ts, steps) ==
  IF steps = 0 THEN ts
  ELSE HostTicks([mt EXCEPT !.now = @ + 1], HostTick(mt, ts, 1), steps - 1)

\* ------------------------------------------------------------- API calls
\* The outcome of an API call: the value returned, whether it warned, what
\* it threw ("none" when it returned), how often it called the host
ApiCall(api, arg, returned, warned, threw, hostCalls) ==
  [api |-> api, arg |-> arg, returned |-> returned, warned |-> warned,
   threw |-> threw, hostCalls |-> hostCalls]
NoApiCall == ApiCall("none", Undefined, Undefined, FALSE, "none", 0)

\* Math.random() as numerator over RandomScale; SEED is
\* Math.floor(Math.random() * 1000000)
RandomScale == 2048
Randoms == {0, 1, 1024, 2047}
\* Math.random() returned random / RandomScale
Seed(random) == (random * 1000000) \div RandomScale

\* -------------------------------------------------------- thrown values
\* What a test body can throw (or reject with). An Error or another object is
\* a fresh object on each attempt (n = the attempt that threw it); primitives
\* have no identity beyond their value.
ObjectKinds == {"Error", "Object"}
NullishKinds == {"undefined", "null"}
FalsyKinds == {"undefined", "null", "zero", "emptyString"}
ThrownKinds == ObjectKinds \cup FalsyKinds

Thrown(kind, n) == [kind |-> kind, n |-> IF kind \in ObjectKinds THEN n ELSE 0]
UndefinedValue == Thrown("undefined", 0)
\* `error.message` on null or undefined raises this
MessageTypeError == [kind |-> "TypeError", n |-> 0]

ValueTruthy(v) == v.kind \notin FalsyKinds

\* ------------------------------------------------------- test execution
\* pc: "idle" (not invoked), "body" (an attempt of the body is in progress),
\* "done". retryCount, attempt and lastError are the locals of wrappedFn and
\* handleRetries; invocations, logs, bodyOk and lastThrown are history.
IdleRun ==
  [pc |-> "idle", retryCount |-> 0, attempt |-> 0, lastError |-> UndefinedValue,
   invocations |-> 0, logs |-> 0, bodyOk |-> FALSE, lastThrown |-> UndefinedValue,
   outcome |-> "none", error |-> UndefinedValue]

\* wrappedFn up to the first invocation of the body: retryCount is read from
\* the registry now; handleRetries starts with attempt = 0, lastError undefined
StartRun(run, retryCount) ==
  [run EXCEPT !.pc = "body", !.retryCount = retryCount, !.attempt = 0,
              !.lastError = UndefinedValue, !.invocations = 1]

\* A loop that went on after the body returned
BodyReturnedLoops(run) ==
  IF run.attempt < run.retryCount
    THEN [run EXCEPT !.bodyOk = TRUE, !.attempt = @ + 1, !.invocations = @ + 1]
    ELSE [run EXCEPT !.pc = "done", !.bodyOk = TRUE, !.outcome = "pass"]

\* The body's attempt returned (or its promise resolved)
BodyReturned(run) ==
  [run EXCEPT !.pc = "done", !.bodyOk = TRUE, !.outcome = "pass"]

\* A loop that read the registry again at each failure
HandleRetriesRereads(run, error) ==
  LET retryCount == GetCurrentRetryCount(describeStack, currentRetryCount)
      caught == [run EXCEPT !.lastError = error, !.lastThrown = error,
                            !.retryCount = retryCount]
  IN IF run.attempt < retryCount
       THEN [caught EXCEPT !.logs = @ + 1, !.attempt = @ + 1, !.invocations = @ + 1]
       ELSE [caught EXCEPT !.pc = "done", !.attempt = @ + 1,
                           !.outcome = "fail", !.error = error]

\* Faulty variant of handleRetries: the first failure is final
HandleRetriesGivesUp(run, error) ==
  [run EXCEPT !.pc = "done", !.lastError = error, !.lastThrown = error,
              !.outcome = "fail", !.error = error]

\* handleRetries: the catch block, the loop test and what follows the loop
HandleRetriesCatch(run, error) ==
  LET caught == [run EXCEPT !.lastError = error, !.lastThrown = error]
  IN IF run.attempt < run.retryCount
       THEN IF error.kind \in NullishKinds
              \* error.message raises inside the catch block
              THEN [caught EXCEPT !.pc = "done", !.outcome = "fail",
                                  !.error = MessageTypeError]
              \* log, attempt++, the loop invokes the body again
              ELSE [caught EXCEPT !.logs = @ + 1, !.attempt = @ + 1,
                                  !.invocations = @ + 1]
       \* attempt++ ends the loop: `if (lastError) throw lastError`
       ELSE IF ValueTruthy(error)
              THEN [caught EXCEPT !.pc = "done", !.attempt = @ + 1,
                                  !.outcome = "fail", !.error = error]
              ELSE [caught EXCEPT !.pc = "done", !.attempt = @ + 1,
                                  !.outcome = "pass"]

\* The body's attempt threw (or its promise rejected with) error
BodyThrew(run, error) ==
  IF run.retryCount > 0
    THEN HandleRetriesCatch(run, error)
    \* wrappedFn returned fn(t) itself: the host sees the body's own failure
    ELSE [run EXCEPT !.pc = "done", !.lastThrown = error,
                     !.outcome = "fail", !.error = error]

\* ------------------------------------------------------------ the machine
\* Argument lists the test files pass after the name
TestArgShapes ==
  { <<Fn("f"), Undefined>>, <<Obj(EmptyOptions), Fn("f")>> }
DescribeArgShapes ==
  { <<Fn("f"), Undefined>>, <<Obj(EmptyOptions), Fn("f")>> }

\* Arguments a caller may put in the second and third position
ArgValues ==
  { Fn("f"), Fn("g"), Obj(EmptyOptions), Obj(Options(FALSE, FALSE, FALSE, {5})),
    Num(7), Num(0), Str, Null, Undefined }

NoInput == [kind |-> "none", entry |-> "", name |-> "", a2 |-> Undefined, a3 |-> Undefined]
NoCall == HostCall("", EmptyOptions, [wraps |-> "nocall"])

Inputs ==
  [kind : {"test"}, entry : TestEntries, name : {"t1", "t2"}, a2 : ArgValues, a3 : ArgValues]
  \cup
  [kind : {"describe"}, entry : DescribeEntries, name : SuiteNames, a2 : ArgValues, a3 : ArgValues]

\* The registry as the module leaves it when loaded; nothing registered
InitShim ==
  /\ describeStack = <<>>
  /\ currentRetryCount = 0
  /\ onlyMode = FALSE
  /\ currentTestContext = 0
  /\ frames = <<>>
  /\ hostTests = <<>>
  /\ regRetry = <<>>
  /\ runs = <<>>
  /\ snapshotCall = [by |-> 0, ctx |-> 0, attempt |-> 0]
  /\ onlyInvoked = "none"
  /\ sinceSet = -1
  /\ createdMocks = {}
  /\ spiedFunctions = EmptyMap
  /\ members = [member \in Members |-> Original(member)]
  /\ restoreCalls = [spy \in Spies |-> 0]
  /\ lastMockOp = "none"
  /\ sweepCalls = [op |-> "none", invoked |-> EmptyMap]
  /\ mockedModules = <<>>
  /\ moduleCache = EmptyMap
  /\ applied = [module \in Modules |-> 0]
  /\ substitutions = {}
  /\ ctxRestores = [context \in Contexts |-> 0]
  /\ lastModuleOp = NoModuleOp
  /\ isFaking = FALSE
  /\ mockTimers = TimersDisabled
  /\ timers = [callback \in Callbacks |-> Unscheduled]
  /\ lastCall = NoApiCall

\* The seed plays no part in what the specifications with this initial state
\* do: one draw stands for all
Init ==
  /\ InitShim
  /\ input = NoInput
  /\ delegated = NoCall
  /\ seed = Seed(0)

\* Faulty variant of .only: the flag is left as it was
OnlyModeUntouched(entry, flag) == flag

\* The only-mode flag after an entry point: `.only` of the test and describe
\* functions sets it, the methods testFiltering installs do not touch it
OnlyModeAfter(entry, flag) ==
  IF entry = "only" THEN SetOnlyMode(flag, TRUE) ELSE flag

\* test.retryTimes(count) / jest.retryTimes(count)
RetryTimes(count) ==
  /\ currentRetryCount' = count
  /\ describeStack' = SetGlobalRetryCount(describeStack, count)
  /\ sinceSet' = count
  /\ UNCHANGED <<mockVars, moduleVars, timerVars, apiVars, onlyMode, currentTestContext, frames, hostTests, regRetry,
                 runs, snapshotCall, onlyInvoked, input, delegated>>

\* describe / describe.only / .skip / .todo with a body: the host runs the
\* wrapper at once, which pushes the block and enters the suite body
Describe(entry, name, a2, a3) ==
  LET call == DescribeCall(entry, name, a2, a3)
  IN /\ Len(describeStack) < MaxDepth
     /\ call.body \notin {NoBody, [wraps |-> "noncallable"]}
     /\ onlyMode' = OnlyModeAfter(entry, onlyMode)
     /\ onlyInvoked' = CASE entry = "only" -> "describe.only"
                          [] entry = "enhanced.only" -> "enhanced describe.only"
                          [] OTHER -> onlyInvoked
     /\ describeStack' = PushDescribeBlock(describeStack, currentRetryCount, call.name)
     /\ frames' = Append(frames, [name |-> call.name, only |-> call.options.only,
                                  depthBefore |-> Len(describeStack),
                                  retryBefore |-> GetCurrentRetryCount(describeStack,
                                                                       currentRetryCount)])
     /\ sinceSet' = -1
     /\ UNCHANGED <<mockVars, moduleVars, timerVars, apiVars, currentRetryCount, currentTestContext, hostTests, regRetry,
                    runs, snapshotCall, input, delegated>>

\* What the wrapper does to the stack once the suite body has returned
AfterBodyReturned(stack) == PopDescribeBlock(stack)

\* What happens to the stack when the suite body throws: the wrapper's pop is
\* never reached, the exception leaves the wrapper
AfterBodyThrew(stack) == stack

\* The innermost suite body returns
DescribeReturn ==
  /\ frames # <<>>
  /\ describeStack' = AfterBodyReturned(describeStack)
  /\ frames' = SubSeq(frames, 1, Len(frames) - 1)
  /\ sinceSet' = -1
  /\ UNCHANGED <<mockVars, moduleVars, timerVars, apiVars, currentRetryCount, onlyMode, currentTestContext, hostTests,
                 regRetry, runs, snapshotCall, onlyInvoked, input, delegated>>

\* The innermost suite body throws while registering; the host catches what
\* leaves the wrapper and the enclosing body goes on
DescribeThrow ==
  /\ frames # <<>>
  /\ describeStack' = AfterBodyThrew(describeStack)
  /\ frames' = SubSeq(frames, 1, Len(frames) - 1)
  /\ sinceSet' = IF describeStack' = describeStack THEN sinceSet ELSE -1
  /\ UNCHANGED <<mockVars, moduleVars, timerVars, apiVars, currentRetryCount, onlyMode, currentTestContext, hostTests,
                 regRetry, runs, snapshotCall, onlyInvoked, input, delegated>>

\* test / test.only / .skip / .todo: the registration with the host
RegisterTest(entry, name, a2, a3) ==
  /\ onlyMode' = OnlyModeAfter(entry, onlyMode)
  /\ onlyInvoked' = CASE entry = "only" -> "test.only"
                       [] entry = "enhanced.only" -> "enhanced test.only"
                       [] OTHER -> onlyInvoked
  /\ hostTests' = Append(hostTests, TestCall(entry, name, a2, a3))
  /\ regRetry' = Append(regRetry,
       [retryCount |-> GetCurrentRetryCount(describeStack, currentRetryCount),
        suite |-> IF frames = <<>> THEN "" ELSE frames[Len(frames)].name])
  /\ runs' = Append(runs, IdleRun)
  /\ UNCHANGED <<mockVars, moduleVars, timerVars, apiVars, describeStack, currentRetryCount, currentTestContext, frames,
                 snapshotCall, sinceSet, input, delegated>>

Running == { i \in 1..Len(runs) : runs[i].pc = "body" }

\* The retry budget wrappedFn resolves for a test
ResolveRetryCount(i) == GetCurrentRetryCount(describeStack, currentRetryCount)

\* The host invokes the wrapped body of test i with its handle. Suite bodies
\* are synchronous, so none is executing. serial: the host runs one test at a
\* time.
InvokeWrapped(i, serial) ==
  /\ frames = <<>>
  /\ runs[i].pc = "idle"
  /\ hostTests[i].body # NoBody
  /\ ~hostTests[i].options.skip
  /\ serial => Running = {}
  /\ currentTestContext' = SetCurrentTestContext(currentTestContext, i)
  /\ runs' = [runs EXCEPT ![i] = StartRun(@, ResolveRetryCount(i))]
  /\ UNCHANGED <<mockVars, moduleVars, timerVars, apiVars, describeStack, currentRetryCount, onlyMode, frames, hostTests,
                 regRetry, snapshotCall, onlyInvoked, sinceSet, input, delegated>>

\* testContextRegistry.getCurrentTestContext
GetCurrentTestContext == currentTestContext

\* A matcher that let a failure of the host's snapshot escape
SnapshotOrThrow(host) ==
  IF host.context = 0 \/ ~host.hasAssert
    THEN ApiCall("toMatchSnapshot", host, Undefined, FALSE, "Error", 0)
  ELSE IF host.throws
    THEN ApiCall("toMatchSnapshot", host, Undefined, FALSE, "AssertionError", 1)
  ELSE ApiCall("toMatchSnapshot", host, [pass |-> TRUE, message |-> "Snapshot matches"],
               FALSE, "none", 1)

\* The toMatchSnapshot matcher. host: the context found in the slot (0 when
\* the slot is empty), whether that context has an assert property, whether
\* context.assert.snapshot throws and the message of what it throws.
SnapshotResult(host) ==
  IF host.context = 0 \/ ~host.hasAssert
    THEN ApiCall("toMatchSnapshot", host, Undefined, FALSE, "Error", 0)
  ELSE IF host.throws
    THEN ApiCall("toMatchSnapshot", host,
                 [pass |-> FALSE,
                  message |-> IF host.message # "" THEN host.message
                              ELSE "Snapshot does not match"],
                 FALSE, "none", 1)
  ELSE ApiCall("toMatchSnapshot", host, [pass |-> TRUE, message |-> "Snapshot matches"],
               FALSE, "none", 1)

\* expect(..).toMatchSnapshot() is evaluated by the running body of test i,
\* or outside every test body when i = 0
MatchSnapshot(i, hasAssert, throws, message) ==
  /\ frames = <<>>
  /\ IF i = 0 THEN TRUE ELSE runs[i].pc = "body"
  /\ snapshotCall' = [by |-> i, ctx |-> GetCurrentTestContext,
                      attempt |-> IF i = 0 THEN 0 ELSE runs[i].attempt]
  /\ lastCall' = SnapshotResult([context |-> GetCurrentTestContext, hasAssert |-> hasAssert,
                                 throws |-> throws, message |-> message])
  /\ UNCHANGED <<mockVars, moduleVars, timerVars, seed, describeStack, currentRetryCount, onlyMode, currentTestContext,
                 frames, hostTests, regRetry, runs, onlyInvoked, sinceSet, input, delegated>>

\* The running body of test i evaluates expect(..).toMatchSnapshot(), and the
\* snapshot matches
ToMatchSnapshot(i) == MatchSnapshot(i, TRUE, FALSE, "")

\* The current attempt of test i settles without failure
BodyReturns(i) ==
  /\ frames = <<>>
  /\ runs[i].pc = "body"
  /\ runs' = [runs EXCEPT ![i] = BodyReturned(@)]
  /\ UNCHANGED <<mockVars, moduleVars, timerVars, apiVars, describeStack, currentRetryCount, onlyMode, currentTestContext,
                 frames, hostTests, regRetry, snapshotCall, onlyInvoked, sinceSet, input, delegated>>

\* The current attempt of test i throws or rejects with a value of this kind
BodyThrows(i, kind) ==
  /\ frames = <<>>
  /\ runs[i].pc = "body"
  /\ runs' = [runs EXCEPT ![i] = BodyThrew(@, Thrown(kind, @.invocations))]
  /\ UNCHANGED <<mockVars, moduleVars, timerVars, apiVars, describeStack, currentRetryCount, onlyMode, currentTestContext,
                 frames, hostTests, regRetry, snapshotCall, onlyInvoked, sinceSet, input, delegated>>

\* retryTimes calls
RetryOps(counts) == \E count \in counts : RetryTimes(count)

\* Suites: their registration and the end of their bodies
SuiteOps(entries, names) ==
  \/ \E entry \in entries, name \in names, args \in DescribeArgShapes :
       Describe(entry, name, args[1], args[2])
  \/ DescribeReturn
  \/ DescribeThrow

\* The test files register the first n tests of TestNames, in order
TestOps(entries, n) ==
  \E entry \in entries, args \in TestArgShapes :
    /\ Len(hostTests) < n
    /\ RegisterTest(entry, TestNames[Len(hostTests) + 1], args[1], args[2])

Invoke(serial) == \E i \in 1..Len(runs) : InvokeWrapped(i, serial)
Snapshot == \E i \in 1..Len(runs) : ToMatchSnapshot(i)
Settle(kinds) ==
  \/ \E i \in 1..Len(runs) : BodyReturns(i)
  \/ \E i \in 1..Len(runs), kind \in kinds : BodyThrows(i, kind)

\* The façade call of input reaches the host
Delegate ==
  /\ input.kind # "none"
  /\ delegated = NoCall
  /\ delegated' = IF input.kind = "test"
                    THEN TestCall(input.entry, input.name, input.a2, input.a3)
                    ELSE DescribeCall(input.entry, input.name, input.a2, input.a3)
  /\ UNCHANGED <<mockVars, moduleVars, timerVars, apiVars, describeStack, currentRetryCount, onlyMode, currentTestContext,
                 frames, hostTests, regRetry, runs, snapshotCall, onlyInvoked,
                 sinceSet, input>>

\* The argument normalisation of test and describe, over every input
InitArgs ==
  /\ InitShim
  /\ input \in Inputs
  /\ delegated = NoCall
  /\ seed = Seed(0)
SpecArgs == InitArgs /\ [][Delegate]_vars

\* The describe stack: suites and retryTimes calls
SpecStack == Init /\ [][RetryOps(RetryCounts) \/ SuiteOps(DescribeEntries, SuiteNames)]_vars

\* One test registered inside or outside suites, and its execution
SpecBudget ==
  /\ Init
  /\ [][\/ RetryOps(RetryCounts)
        \/ SuiteOps({"describe"}, {"A"})
        \/ TestOps({"test"}, 1)
        \/ Invoke(FALSE)
        \/ Settle({"Error"})]_vars

\* Every entry point of test and describe, and the execution of the test
SpecFilter ==
  /\ Init
  /\ [][\/ RetryOps({MaxRetry})
        \/ SuiteOps(DescribeEntries, SuiteNames)
        \/ TestOps(TestEntries, 1)
        \/ Invoke(FALSE)
        \/ Snapshot
        \/ Settle({"Error"})]_vars

\* One test under the retry loop, its body throwing any kind of value
SpecRetry ==
  /\ Init
  /\ [][\/ RetryOps(RetryCounts)
        \/ TestOps({"test"}, 1)
        \/ Invoke(FALSE)
        \/ Settle(ThrownKinds)]_vars

\* Two tests whose asynchronous bodies the host interleaves
SpecInterleaved ==
  /\ Init
  /\ [][\/ RetryOps(RetryCounts)
        \/ TestOps({"test"}, 2)
        \/ Invoke(FALSE)
        \/ Snapshot
        \/ Settle({"Error"})]_vars

\* Two tests that the host runs one at a time
SpecSerial ==
  /\ Init
  /\ [][\/ RetryOps(RetryCounts)
        \/ TestOps({"test"}, 2)
        \/ Invoke(TRUE)
        \/ Snapshot
        \/ Settle({"Error"})]_vars

\* The 'Test Retries' suite: `let counter = 0` is incremented by every
\* invocation of the body of its one test
Counter == IF runs = <<>> THEN 0 ELSE runs[1].invocations

\* The body's assertion expect(counter).toBeGreaterThan(1) fails
AssertionFails(counter) == ~(counter > 1)

\* An attempt of that body ends: by its assertion
CounterBodyEnds(i) ==
  IF AssertionFails(Counter) THEN BodyThrows(i, "Error") ELSE BodyReturns(i)

\* The test of the 'Test Retries' suite, under any retryTimes calls
SpecScenario ==
  /\ Init
  /\ [][\/ RetryOps(RetryCounts)
        \/ SuiteOps({"describe"}, {"A"})
        \/ TestOps({"test"}, 1)
        \/ Invoke(FALSE)
        \/ \E i \in 1..Len(runs) : CounterBodyEnds(i)]_vars

\* The .only entry points, those of testFiltering included: registration
SpecEnhanced ==
  /\ Init
  /\ [][\/ SuiteOps({"describe"} \cup OnlyEntries, {"A"})
        \/ TestOps({"test"} \cup OnlyEntries, 2)]_vars

\* A direct call of retryRegistry.getCurrentRetryCount()
GetCurrentRetryCountCall ==
  /\ lastCall' = ApiCall("getCurrentRetryCount", Undefined,
                         Num(GetCurrentRetryCount(describeStack, currentRetryCount)),
                         FALSE, "none", 0)
  /\ UNCHANGED <<testVars, mockVars, moduleVars, timerVars, seed>>

\* The retry registry: counts set and read at every depth of nesting
SpecRegistry ==
  /\ Init
  /\ [][\/ RetryOps(RetryCounts)
        \/ SuiteOps({"describe"}, SuiteNames)
        \/ GetCurrentRetryCountCall]_vars

\* A direct call of retryRegistry.popDescribeBlock(), outside every suite body
PopDescribeBlockCall ==
  /\ frames = <<>>
  /\ describeStack' = PopDescribeBlock(describeStack)
  /\ sinceSet' = IF describeStack' = describeStack THEN sinceSet ELSE -1
  /\ lastCall' = ApiCall("popDescribeBlock", Undefined, Undefined, FALSE, "none", 0)
  /\ UNCHANGED <<mockVars, moduleVars, timerVars, seed, currentRetryCount, onlyMode,
                 currentTestContext, frames, hostTests, regRetry, runs, snapshotCall,
                 onlyInvoked, input, delegated>>

\* Suites registered one inside the other, their bodies returning
SpecNesting ==
  /\ Init
  /\ [][\/ RetryOps(RetryCounts)
        \/ \E name \in SuiteNames, args \in DescribeArgShapes :
             Describe("describe", name, args[1], args[2])
        \/ DescribeReturn
        \/ PopDescribeBlockCall]_vars

\* Snapshots: matched in and outside test bodies, whatever the host does
SpecSnapshot ==
  /\ Init
  /\ [][\/ TestOps({"test"}, 2)
        \/ Invoke(FALSE)
        \/ Settle({"Error"})
        \/ \E i \in 0..Len(runs), hasAssert \in BOOLEAN, throws \in BOOLEAN,
              message \in {"", "Snapshot mismatch"} :
             /\ ~throws => message = ""
             /\ MatchSnapshot(i, hasAssert, throws, message)]_vars

\* ------------------------------------------------------ mocks: actions
\* jest.spyOn(object, methodName): createSpyFunction reads the member, lets
\* the library spy on it and registers what the library returned
SpyOn(member) ==
  LET original == members[member]
      spyInstance == LibrarySpyOn(members[member], createdMocks)
  IN /\ spyInstance.gen <= MaxSpies
     /\ members' = [members EXCEPT ![member] = spyInstance]
     /\ spiedFunctions' = RegisterSpy(spiedFunctions, spyInstance, original)
     /\ createdMocks' = createdMocks \cup {spyInstance}
     /\ lastMockOp' = "spyOn"
     /\ UNCHANGED <<testVars, moduleVars, timerVars, apiVars, restoreCalls, sweepCalls>>

\* spy.mockRestore() called by the test on a spy it holds: the library puts
\* the implementation it saved back; the registry is not involved
MockRestore(spy) ==
  /\ spy \in createdMocks
  /\ restoreCalls[spy] < MaxRestores
  /\ members' = [members EXCEPT ![spy.member] = Original(spy.member)]
  /\ restoreCalls' = [restoreCalls EXCEPT ![spy] = @ + 1]
  /\ lastMockOp' = "mockRestore"
  /\ UNCHANGED <<testVars, moduleVars, timerVars, apiVars, createdMocks, spiedFunctions,
                 sweepCalls>>

\* jest.restoreAllMocks(): mockRestore of every spy in the map, then clear
RestoreAllMocks ==
  LET tracked == DOMAIN spiedFunctions
  IN /\ \A spy \in tracked : restoreCalls[spy] < MaxRestores
     /\ members' = [member \in Members |->
                      IF \E spy \in tracked : spy.member = member
                        THEN Original(member) ELSE members[member]]
     /\ restoreCalls' = [spy \in Spies |->
                           IF spy \in tracked THEN restoreCalls[spy] + 1
                           ELSE restoreCalls[spy]]
     /\ spiedFunctions' = SpiedAfterRestoreAll(spiedFunctions)
     /\ lastMockOp' = IF lastMockOp \in {"restoreAllMocks", "restoreAllMocks again"}
                        THEN "restoreAllMocks again" ELSE "restoreAllMocks"
     /\ UNCHANGED <<testVars, moduleVars, timerVars, apiVars, createdMocks, sweepCalls>>

\* mockRegistry.registerMock(mock); with MockFn this is jest.fn()
RegisterMockCall(mock) ==
  /\ createdMocks' = RegisterMock(createdMocks, mock)
  /\ lastCall' = ApiCall("registerMock", mock, mock, FALSE, "none", 0)
  /\ UNCHANGED <<testVars, moduleVars, timerVars, seed, spiedFunctions, members,
                 restoreCalls, lastMockOp, sweepCalls>>

\* jest.clearAllMocks() (capability mockClear) and jest.resetAllMocks()
\* (capability mockReset)
SweepAllMocks(op) ==
  /\ sweepCalls' = [op |-> op, invoked |-> SweepOfCreated(createdMocks, spiedFunctions)]
  /\ UNCHANGED <<testVars, moduleVars, timerVars, apiVars, createdMocks, spiedFunctions,
                 members, restoreCalls, lastMockOp>>

\* The tracked mocks: registered, cleared, reset, restored
SpecTracked ==
  /\ Init
  /\ [][\/ SpyOn("mockObj.method")
        \/ RestoreAllMocks
        \/ \E mock \in {MockFn, PlainObject} \cup createdMocks : RegisterMockCall(mock)
        \/ \E op \in {"clearAllMocks", "resetAllMocks"} : SweepAllMocks(op)]_vars

\* Spies: created, restored one by one, restored all at once
SpecMocks ==
  /\ Init
  /\ [][\/ \E member \in Members : SpyOn(member)
        \/ \E spy \in Spies : MockRestore(spy)
        \/ RestoreAllMocks]_vars

\* jest.isMockFunction(candidate)
IsMockFunctionCall(candidate) ==
  /\ lastCall' = ApiCall("isMockFunction", candidate, IsMockFunction(candidate),
                         FALSE, "none", 0)
  /\ UNCHANGED <<testVars, mockVars, moduleVars, timerVars, seed>>

\* isMockFunction asked about arguments of every type, an object that
\* carries the marker, and the spies created so far
SpecIsMock ==
  /\ Init
  /\ [][\/ \E member \in Members : SpyOn(member)
        \/ RestoreAllMocks
        \/ \E candidate \in ArgValues \cup {Bool(TRUE), Bool(FALSE),
                                              Obj([isMockFunction |-> TRUE])}
                             \cup {MockValue(spy) : spy \in createdMocks} :
             IsMockFunctionCall(candidate)]_vars

\* ------------------------------------------------ fake timers: actions
\* The configurations jest.useFakeTimers is called with: doNotFake absent or
\* naming one API, now absent or 1
FakeTimersConfigs ==
  {[doNotFake |-> doNotFake, now |-> now] :
     doNotFake \in {{}, {"setTimeout"}, {"Date"}}, now \in {{}, {1}}}

\* The configurations that fake every default API
FakeAllConfigs == {config \in FakeTimersConfigs : config.doNotFake = {}}

\* jest.useFakeTimers(config). config.doNotFake: a set of APIs (empty when
\* absent); config.now: a set of at most one number. The host's enable
\* throws when its timers are enabled already.
UseFakeTimers(config) ==
  LET resets == isFaking
      mt == IF resets THEN TimersDisabled ELSE mockTimers
      apis == DefaultApis \ config.doNotFake
      now == IF config.now = {} THEN 0 ELSE CHOOSE n \in config.now : TRUE
  IN /\ timers' = IF resets THEN QueueCleared(timers, "reset") ELSE timers
     /\ IF mt.enabled
          THEN /\ mockTimers' = mt
               /\ UNCHANGED isFaking
               /\ lastCall' = ApiCall("useFakeTimers", config, Undefined, FALSE,
                                      "ERR_INVALID_STATE", 1)
          ELSE /\ mockTimers' = [enabled |-> TRUE, apis |-> apis, now |-> now]
               /\ isFaking' = TRUE
               /\ lastCall' = ApiCall("useFakeTimers", config, Undefined, FALSE,
                                      "none", IF resets THEN 2 ELSE 1)
     /\ UNCHANGED <<testVars, mockVars, moduleVars, seed>>

\* jest.useRealTimers()
UseRealTimers ==
  /\ IF isFaking
       THEN /\ mockTimers' = TimersDisabled
            /\ timers' = QueueCleared(timers, "reset")
            /\ isFaking' = FALSE
       ELSE UNCHANGED <<mockTimers, timers, isFaking>>
  /\ lastCall' = ApiCall("useRealTimers", Undefined, Undefined, FALSE, "none",
                         IF isFaking THEN 1 ELSE 0)
  /\ UNCHANGED <<testVars, mockVars, moduleVars, seed>>

\* runAllTimers and runOnlyPendingTimers: ensureFakingTime only warns; the
\* host's runAll throws when its timers are not enabled, else ticks up to the
\* last timer due
RunAll(api) ==
  LET pending == { callback \in Callbacks : timers[callback].status = "pending" }
      last == CHOOSE callback \in pending :
                \A other \in pending : timers[other].runAt <= timers[callback].runAt
      ms == timers[last].runAt - mockTimers.now
  IN /\ IF mockTimers.enabled /\ pending # {}
          THEN /\ timers' = HostTick(mockTimers, timers, ms)
               /\ mockTimers' = [mockTimers EXCEPT !.now = @ + ms]
          ELSE UNCHANGED <<mockTimers, timers>>
     /\ lastCall' = ApiCall(api, Undefined, Undefined, ~isFaking,
                            IF mockTimers.enabled THEN "none" ELSE "ERR_INVALID_STATE",
                            1)
     /\ UNCHANGED <<testVars, mockVars, moduleVars, isFaking, seed>>

\* jest.runAllTimers()
RunAllTimers == RunAll("runAllTimers")

\* jest.runOnlyPendingTimers()
RunOnlyPendingTimers == RunAll("runOnlyPendingTimers")

\* jest.advanceTimersByTime(msToRun)
AdvanceTimersByTime(msToRun) ==
  /\ mockTimers.now + msToRun <= MaxTime
  /\ IF mockTimers.enabled
       THEN /\ timers' = HostTick(mockTimers, timers, msToRun)
            /\ mockTimers' = [mockTimers EXCEPT !.now = @ + msToRun]
       ELSE UNCHANGED <<mockTimers, timers>>
  /\ lastCall' = ApiCall("advanceTimersByTime", Num(msToRun), Undefined, ~isFaking,
                         IF mockTimers.enabled THEN "none" ELSE "ERR_INVALID_STATE", 1)
  /\ UNCHANGED <<testVars, mockVars, moduleVars, isFaking, seed>>

\* jest.advanceTimersToNextTimer(steps): tick(1) in a loop, the first of
\* which throws when the host's timers are not enabled
AdvanceTimersToNextTimer(steps) ==
  /\ mockTimers.now + steps <= MaxTime
  /\ IF mockTimers.enabled
       THEN /\ timers' = HostTicks(mockTimers, timers, steps)
            /\ mockTimers' = [mockTimers EXCEPT !.now = @ + steps]
       ELSE UNCHANGED <<mockTimers, timers>>
  /\ lastCall' = ApiCall("advanceTimersToNextTimer", Num(steps), Undefined, ~isFaking,
                         IF mockTimers.enabled THEN "none" ELSE "ERR_INVALID_STATE", 1)
  /\ UNCHANGED <<testVars, mockVars, moduleVars, isFaking, seed>>

\* jest.setSystemTime(now): mock.timers.setTime(now) moves the host's clock.
\* fires: whether this version of the host runs the timers the new time makes
\* due. Timers that are not enabled have no clock to move.
SetSystemTime(now, fires) ==
  /\ IF mockTimers.enabled
       THEN /\ mockTimers' = [mockTimers EXCEPT !.now = now]
            /\ timers' = IF fires /\ now >= mockTimers.now
                           THEN HostTick(mockTimers, timers, now - mockTimers.now)
                           ELSE timers
       ELSE UNCHANGED <<mockTimers, timers>>
  /\ lastCall' = ApiCall("setSystemTime", Num(now), Undefined, ~isFaking, "none", 1)
  /\ UNCHANGED <<testVars, mockVars, moduleVars, isFaking, seed>>

\* jest.clearAllTimers(): reset, then enable with the default APIs and no
\* `now` (the host starts at 0)
ClearAllTimers ==
  /\ timers' = QueueCleared(timers, "cleared")
  /\ mockTimers' = [enabled |-> TRUE, apis |-> DefaultApis, now |-> 0]
  /\ lastCall' = ApiCall("clearAllTimers", Undefined, Undefined, ~isFaking, "none", 2)
  /\ UNCHANGED <<testVars, mockVars, moduleVars, isFaking, seed>>

\* The test calls the global setTimeout(callback, delay); callback2 is only
\* scheduled by callback1
SetTimeout(callback, delay) ==
  /\ callback # "callback2"
  /\ timers[callback].status = "unscheduled"
  /\ mockTimers.now + delay <= MaxTime
  /\ timers' = [timers EXCEPT ![callback] = Scheduled(mockTimers, delay)]
  /\ UNCHANGED <<testVars, mockVars, moduleVars, isFaking, mockTimers, apiVars>>

\* Real time passes: a timer that was scheduled with the real setTimeout fires
RealTimerFires(callback) ==
  /\ timers[callback].status = "real"
  /\ timers' = Invoked(mockTimers, timers, {callback})
  /\ UNCHANGED <<testVars, mockVars, moduleVars, isFaking, mockTimers, apiVars>>

\* Fake timers: switched on and off, timers scheduled, time advanced
SpecTimers ==
  /\ Init
  /\ [][\/ \E config \in FakeTimersConfigs : UseFakeTimers(config)
        \/ UseRealTimers
        \/ RunAllTimers
        \/ \E msToRun \in Delays : AdvanceTimersByTime(msToRun)
        \/ ClearAllTimers
        \/ \E callback \in Callbacks, delay \in Delays : SetTimeout(callback, delay)
        \/ \E callback \in Callbacks : RealTimerFires(callback)]_vars

\* What cacheModule is given: two module objects, and a falsy value
CachedValues == {Obj([cached |-> 1]), Obj([cached |-> 2]), Num(0)}

\* requireActual(moduleName): the module itself (or the promise of it)
ActualModule(moduleName) == Obj([actual |-> moduleName])

\* moduleRegistry.getCachedModule: Map.prototype.get
GetCachedModule(cache, moduleName) ==
  IF moduleName \in DOMAIN cache THEN cache[moduleName] ELSE Undefined

\* requireMock: `if (cachedModule) return cachedModule`, else requireActual
RequireMock(cache, moduleName) ==
  LET cachedModule == GetCachedModule(cache, moduleName)
  IN IF Truthy(cachedModule) THEN cachedModule ELSE ActualModule(moduleName)

\* Every operation of the fake timers, in any order
SpecFakeFlag ==
  /\ Init
  /\ [][\/ \E config \in FakeAllConfigs : UseFakeTimers(config)
        \/ UseRealTimers
        \/ ClearAllTimers
        \/ RunAllTimers
        \/ RunOnlyPendingTimers
        \/ AdvanceTimersByTime(1)
        \/ \E steps \in 1..2 : AdvanceTimersToNextTimer(steps)
        \/ \E now \in 0..MaxTime, fires \in BOOLEAN : SetSystemTime(now, fires)
        \/ \E callback \in Callbacks : SetTimeout(callback, 1)]_vars

\* ---------------------------------------------------- modules: actions
\* moduleRegistry.cacheModule(moduleName, module)
CacheModule(moduleName, module) ==
  /\ moduleCache' = MapSet(moduleCache, moduleName, module)
  /\ lastModuleOp' = ModuleOp("cacheModule", moduleName, "none", "cached",
                              FALSE, FALSE, "", "none")
  /\ UNCHANGED <<testVars, mockVars, timerVars, apiVars, mockedModules, applied,
                 substitutions, ctxRestores>>

\* jest.requireMock(moduleName)
RequireMockCall(moduleName) ==
  /\ lastCall' = ApiCall("requireMock", moduleName, RequireMock(moduleCache, moduleName),
                         FALSE, "none", 0)
  /\ UNCHANGED <<testVars, mockVars, moduleVars, timerVars, seed>>

\* jest.mock(moduleName, factory). hostOk: the host accepts the substitution.
\* A factory that returns null or undefined makes the argument list of the
\* host call raise a TypeError inside the try block, before the host is
\* called.
MockModule(moduleName, factory, hostOk) ==
  LET mockContext == Context(moduleName, applied[moduleName] + 1)
      typeError == MockModuleCatch(moduleName, "TypeError")
      hostError == MockModuleCatch(moduleName, "hostError")
  IN /\ IF HasMockedModule(mockedModules, moduleName)
          THEN /\ lastModuleOp' = ModuleOp("mock", moduleName, factory,
                                           "already mocked", FALSE, FALSE, "", "none")
               /\ UNCHANGED <<mockedModules, applied, substitutions>>
        ELSE IF factory = "throws"
          THEN /\ lastModuleOp' = ModuleOp("mock", moduleName, factory,
                                           "factory threw", TRUE, FALSE, "", "factoryError")
               /\ UNCHANGED <<mockedModules, applied, substitutions>>
        ELSE IF factory = "nullish"
          THEN /\ lastModuleOp' = ModuleOp("mock", moduleName, factory,
                                           "exports unreadable", TRUE, FALSE,
                                           typeError.logged, typeError.thrown)
               /\ UNCHANGED <<mockedModules, applied, substitutions>>
        ELSE IF ~hostOk
          THEN /\ lastModuleOp' = ModuleOp("mock", moduleName, factory,
                                           "host rejected", factory # "none", TRUE,
                                           hostError.logged, hostError.thrown)
               /\ UNCHANGED <<mockedModules, applied, substitutions>>
          ELSE /\ applied[moduleName] < MaxMocks
               /\ applied' = [applied EXCEPT ![moduleName] = @ + 1]
               /\ substitutions' = substitutions \cup {mockContext}
               /\ mockedModules' =
                    RegisterMockedModule(mockedModules, moduleName, mockContext)
               /\ lastModuleOp' = ModuleOp("mock", moduleName, factory,
                                           "registered", factory # "none", TRUE, "", "none")
     /\ UNCHANGED <<testVars, mockVars, timerVars, apiVars, moduleCache, ctxRestores>>

\* jest.unmock(moduleName). restoreOk: the context's restore returns; when it
\* throws, the host may or may not have undone the substitution (undone).
UnmockModule(moduleName, restoreOk, undone) ==
  /\ IF ~HasMockedModule(mockedModules, moduleName)
       THEN /\ lastModuleOp' = ModuleOp("unmock", moduleName, "none", "not mocked",
                                        FALSE, FALSE, "", "none")
            /\ UNCHANGED <<mockedModules, substitutions, ctxRestores>>
       ELSE LET mockContext == GetMockedModule(mockedModules, moduleName)
            IN /\ ctxRestores[mockContext] < MaxRestores
               /\ ctxRestores' = [ctxRestores EXCEPT ![mockContext] = @ + 1]
               /\ IF restoreOk
                    THEN /\ substitutions' = substitutions \ {mockContext}
                         /\ mockedModules' = DeleteMockedModule(mockedModules, moduleName)
                         /\ lastModuleOp' = ModuleOp("unmock", moduleName, "none",
                                                     "restored", FALSE, FALSE, "", "none")
                    ELSE /\ substitutions' = IF undone THEN substitutions \ {mockContext}
                                                       ELSE substitutions
                         /\ UNCHANGED mockedModules
                         /\ lastModuleOp' = ModuleOp("unmock", moduleName, "none",
                                                     "restore threw", FALSE, FALSE, "",
                                                     "restoreError")
  /\ UNCHANGED <<testVars, mockVars, timerVars, apiVars, moduleCache, applied>>

\* jest.resetModules(): restore of every entry in insertion order, then both
\* maps are cleared. failAt: the entry whose restore throws, 0 when none does;
\* the loop and the function end there. (The CommonJS require.cache, emptied
\* last inside a try/catch, is not part of the state.)
ResetAllModules(failAt, undone) ==
  LET n == Len(mockedModules)
      visited == IF failAt = 0 THEN 1..n ELSE 1..failAt
      returned == IF failAt = 0 THEN 1..n ELSE 1..(failAt - 1)
      restored == { mockedModules[i].context : i \in returned }
                    \cup (IF failAt > 0 /\ undone
                            THEN {mockedModules[failAt].context} ELSE {})
  IN /\ \A i \in visited : ctxRestores[mockedModules[i].context] < MaxRestores
     /\ ctxRestores' = [context \in Contexts |->
                          IF \E i \in visited : mockedModules[i].context = context
                            THEN ctxRestores[context] + 1
                            ELSE ctxRestores[context]]
     /\ substitutions' = substitutions \ restored
     /\ IF failAt = 0
          THEN /\ mockedModules' = <<>>
               /\ moduleCache' = EmptyMap
               /\ lastModuleOp' = ModuleOp("resetModules", "", "none", "reset",
                                           FALSE, FALSE, "", "none")
          ELSE /\ UNCHANGED <<mockedModules, moduleCache>>
               /\ lastModuleOp' = ModuleOp("resetModules", "", "none", "restore threw",
                                           FALSE, FALSE, "", "restoreError")
     /\ UNCHANGED <<testVars, mockVars, timerVars, apiVars, applied>>

\* Module mocks: applied, restored one by one, restored all at once
SpecModules ==
  /\ Init
  /\ [][\/ \E moduleName \in Modules, factory \in Factories, hostOk \in BOOLEAN :
             MockModule(moduleName, factory, hostOk)
        \/ \E moduleName \in Modules, restoreOk \in BOOLEAN, undone \in BOOLEAN :
             /\ restoreOk => undone
             /\ UnmockModule(moduleName, restoreOk, undone)
        \/ \E failAt \in 0..Len(mockedModules), undone \in BOOLEAN :
             /\ failAt = 0 => undone
             /\ ResetAllModules(failAt, undone)]_vars

\* The module cache: filled, read, emptied, among mocks of modules
SpecCache ==
  /\ Init
  /\ [][\/ \E moduleName \in Modules, module \in CachedValues :
             CacheModule(moduleName, module)
        \/ \E moduleName \in Modules : RequireMockCall(moduleName)
        \/ MockModule("fs", "exports", TRUE)
        \/ UnmockModule("fs", TRUE, TRUE)
        \/ \E failAt \in 0..Len(mockedModules) : ResetAllModules(failAt, TRUE)]_vars

\* ------------------------------------------------------ warnings only
\* jest.setTimeout(timeout): a warning, nothing else
JestSetTimeout(timeout) ==
  /\ lastCall' = ApiCall("setTimeout", Num(timeout), Undefined, TRUE, "none", 0)
  /\ UNCHANGED <<testVars, mockVars, moduleVars, timerVars, seed>>

\* A getTimerCount that counted the pending timers
GetPendingTimerCount ==
  /\ lastCall' = ApiCall("getTimerCount", Undefined,
                         Num(Cardinality({ callback \in Callbacks :
                                             timers[callback].status = "pending" })),
                         TRUE, "none", 0)
  /\ UNCHANGED <<testVars, mockVars, moduleVars, timerVars, seed>>

\* jest.getTimerCount(): a warning, and 0
GetTimerCount ==
  /\ lastCall' = ApiCall("getTimerCount", Undefined, Num(0), TRUE, "none", 0)
  /\ UNCHANGED <<testVars, mockVars, moduleVars, timerVars, seed>>

\* The two calls that only warn, among operations on every part of the shim
SpecWarnings ==
  /\ Init
  /\ [][\/ RetryOps({MaxRetry})
        \/ SuiteOps({"only"}, {"A"})
        \/ TestOps({"test"}, 1)
        \/ Invoke(FALSE)
        \/ SpyOn("mockObj.method")
        \/ MockModule("fs", "exports", TRUE)
        \/ \E config \in {c \in FakeAllConfigs : c.now = {}} : UseFakeTimers(config)
        \/ SetTimeout("callback", 1)
        \/ \E timeout \in {0, 5000} : JestSetTimeout(timeout)
        \/ GetTimerCount]_vars

\* ----------------------------------------------------------------- seed
\* The seed module has been loaded: SEED is drawn
InitSeed ==
  /\ InitShim
  /\ input = NoInput
  /\ delegated = NoCall
  /\ seed \in { Seed(random) : random \in Randoms }

\* A getSeed that drew a seed at each call
GetFreshSeed ==
  /\ seed' \in { Seed(random) : random \in Randoms }
  /\ lastCall' = ApiCall("getSeed", Undefined, Num(seed'), FALSE, "none", 0)
  /\ UNCHANGED <<testVars, mockVars, moduleVars, timerVars>>

\* jest.getSeed()
GetSeed ==
  /\ lastCall' = ApiCall("getSeed", Undefined, Num(seed), FALSE, "none", 0)
  /\ UNCHANGED <<testVars, mockVars, moduleVars, timerVars, seed>>

\* getSeed among operations on the other parts of the shim
SpecSeed ==
  /\ InitSeed
  /\ [][\/ GetSeed
        \/ RetryOps({MaxRetry})
        \/ SpyOn("mockObj.method")
        \/ MockModule("fs", "exports", TRUE)
        \/ \E config \in {c \in FakeAllConfigs : c.now = {1}} : UseFakeTimers(config)
        \/ UseRealTimers
        \/ JestSetTimeout(5000)]_vars

\* ================================================================ claims

\* C1: with retry budget N, a body that fails K <= N times and then succeeds
\* is reported as passed after K+1 invocations; a body that fails more than N
\* times is invoked N+1 times and reported as failed with the error of the
\* (N+1)-th attempt.
C1_RetryOutcome ==
  \A i \in 1..Len(runs) :
    runs[i].pc = "done" =>
      IF runs[i].bodyOk
        THEN /\ runs[i].outcome = "pass"
             /\ runs[i].invocations <= runs[i].retryCount + 1
        ELSE /\ runs[i].invocations = runs[i].retryCount + 1
             /\ runs[i].outcome = "fail"
             /\ runs[i].error = runs[i].lastThrown
             /\ runs[i].error.n \in {0, runs[i].retryCount + 1}

\* C2: when the wrapper around a suite body finishes, by return or by throw,
\* the describe stack is as deep as it was when the wrapper started.
C2_StackBalanced ==
  [][(frames # <<>> /\ frames' = SubSeq(frames, 1, Len(frames) - 1))
       => Len(describeStack') = frames[Len(frames)].depthBefore]_vars

\* C3: the retry budget a test runs with is the value getCurrentRetryCount()
\* had when the test was registered.
C3_BudgetFromRegistration ==
  \A i \in 1..Len(runs) :
    runs[i].pc # "idle" => runs[i].retryCount = regRetry[i].retryCount

\* C4: a test whose last allowed attempt failed is reported as failed with
\* exactly the value that attempt threw, whatever the value.
C4_LastFailureSurfaces ==
  \A i \in 1..Len(runs) :
    (runs[i].pc = "done" /\ ~runs[i].bodyOk)
      => (runs[i].outcome = "fail" /\ runs[i].error = runs[i].lastThrown)

\* C5: a block pushed on the stack gets the count of the block that was on
\* top (the process-wide default when the stack was empty), and after
\* setGlobalRetryCount(n) with a block on top, getCurrentRetryCount() is n
\* until the next push or pop.
C5_RetryInheritance ==
  /\ [][Len(describeStack') = Len(describeStack) + 1
          => /\ SubSeq(describeStack', 1, Len(describeStack)) = describeStack
             /\ describeStack'[Len(describeStack')].retryCount =
                  IF describeStack = <<>>
                    THEN currentRetryCount
                    ELSE describeStack[Len(describeStack)].retryCount]_vars
  /\ []((sinceSet >= 0 /\ describeStack # <<>>)
          => GetCurrentRetryCount(describeStack, currentRetryCount) = sinceSet)

\* A nested block has inherited its parent's count, which is not the default
C5_Witness ==
  /\ Len(describeStack) = 2
  /\ Len(frames) = 2
  /\ sinceSet = -1
  /\ describeStack[2].retryCount = describeStack[1].retryCount
  /\ describeStack[1].retryCount # currentRetryCount

\* C6: when the host runs one test at a time, toMatchSnapshot evaluated in a
\* test's body, on any attempt, reads that test's own handle.
C6_OwnContext == snapshotCall.by # 0 => snapshotCall.ctx = snapshotCall.by

\* The second test asserts in a retry attempt, after the first test is over
C6_Witness ==
  /\ snapshotCall.by = 2
  /\ snapshotCall.attempt > 0
  /\ snapshotCall.ctx = 2
  /\ runs[1].pc = "done"

\* C7: each invocation of a wrapped body overwrites the slot with that
\* test's handle and toMatchSnapshot reads the slot as it is, so with two
\* interleaved bodies an assertion of one test can read the other's handle.
C7_SlotOverwritten ==
  /\ [][\A i \in 1..Len(runs) :
          (runs[i].pc = "idle" /\ runs'[i].pc = "body") => currentTestContext' = i]_vars
  /\ [][snapshotCall' # snapshotCall => snapshotCall'.ctx = currentTestContext]_vars

\* Test 1, in a retry attempt, has read the handle of test 2
C7_Witness ==
  /\ snapshotCall.by = 1
  /\ snapshotCall.attempt > 0
  /\ snapshotCall.ctx = 2
  /\ runs[1].pc = "body"
  /\ runs[2].pc = "body"

\* C8: test.only and test.skip, called as (name, body, timeout?) or as
\* (name, options, body), hand the host the wrapped body and the options an
\* ordinary test(...) call would, plus the only / skip flag.
C8_FilteredLikeOrdinary ==
  (delegated # NoCall /\ input.kind = "test" /\ input.entry \in {"only", "skip"}
     /\ (IsFunction(input.a2) \/ (IsObject(input.a2) /\ IsFunction(input.a3))))
  => LET ordinary == TestFunction(input.name, input.a2, input.a3)
     IN /\ delegated.body = ordinary.body
        /\ delegated.options =
             IF input.entry = "only"
               THEN [ordinary.options EXCEPT !.only = TRUE]
               ELSE [ordinary.options EXCEPT !.skip = TRUE]

\* C9: test(name, body, timeout?) reaches the host as (name, {timeout} or {},
\* wrapped body), test(name, options, body?) as (name, options, wrapped body
\* or none); describe(name, body) and describe(name, options, body) as
\* (name, options, wrapped body).
C9_Normalised ==
  (delegated # NoCall /\ input.entry \in {"test", "describe"}) =>
    /\ (input.kind = "test" /\ IsFunction(input.a2))
         => delegated =
              HostCall(input.name,
                       Options(FALSE, FALSE, FALSE,
                               IF IsNumber(input.a3) THEN {input.a3.num} ELSE {}),
                       Wrapped(input.a2))
    /\ (input.kind = "test" /\ IsObject(input.a2)
          /\ (IsFunction(input.a3) \/ input.a3 = Undefined))
         => delegated =
              HostCall(input.name, OptsOf(input.a2),
                       IF IsFunction(input.a3) THEN Wrapped(input.a3) ELSE NoBody)
    /\ (input.kind = "describe" /\ IsFunction(input.a2))
         => delegated = HostCall(input.name, EmptyOptions, Wrapped(input.a2))
    /\ (input.kind = "describe" /\ IsObject(input.a2) /\ IsFunction(input.a3))
         => delegated = HostCall(input.name, OptsOf(input.a2), Wrapped(input.a3))

\* test(name, body, 7) has reached the host with the timeout as an option
C9_Witness ==
  /\ input.kind = "test" /\ input.entry = "test"
  /\ input.a2 = Fn("f") /\ input.a3 = Num(7)
  /\ delegated = HostCall(input.name, Options(FALSE, FALSE, FALSE, {7}), Wrapped(Fn("f")))

\* C10: the only-mode flag is false until test.only or describe.only is
\* invoked, true from then on, and no registration is taken back from the
\* host.
C10_OnlyModeSticky ==
  /\ [](onlyMode <=> onlyInvoked # "none")
  /\ [][onlyMode => onlyMode']_vars
  /\ [][/\ Len(hostTests') >= Len(hostTests)
        /\ SubSeq(hostTests', 1, Len(hostTests)) = hostTests]_vars

\* After a describe.only, the plain suite B has registered its test
C10_Witness ==
  /\ onlyMode
  /\ onlyInvoked = "describe.only"
  /\ Len(frames) = 1 /\ frames[1].name = "B" /\ ~frames[1].only
  /\ Len(hostTests) = 1 /\ regRetry[1].suite = "B"
  /\ ~hostTests[1].options.only

\* C11: whenever a test or a suite has been registered through a .only entry
\* point (test.only, describe.only, or the .only methods that
\* testFiltering.enhanceTestFunction and enhanceDescribeFunction install),
\* isOnlyMode() is true.
C11_OnlySetsFlag == onlyInvoked # "none" => IsOnlyMode(onlyMode)

\* C12: restoreAllMocks leaves no spy tracked, so a restoreAllMocks that
\* follows another at once invokes no mockRestore and changes neither the
\* registry nor the spied-on objects.
C12_RestoreAllIdempotent ==
  /\ [](lastMockOp \in {"restoreAllMocks", "restoreAllMocks again"}
          => DOMAIN spiedFunctions = {})
  /\ [][lastMockOp' = "restoreAllMocks again"
          => UNCHANGED <<createdMocks, spiedFunctions, members, restoreCalls>>]_vars

\* A second restoreAllMocks in a row, after the first restored two spies
C12_Witness ==
  /\ lastMockOp = "restoreAllMocks again"
  /\ \A member \in Members :
        /\ Spy(member, 1) \in createdMocks
        /\ restoreCalls[Spy(member, 1)] = 1
        /\ members[member] = Original(member)

\* C13: the original recorded for a spy is the implementation the member
\* had before any spying, an entry once written is never rewritten, and no
\* spy has its mockRestore invoked more than once.
C13_OriginalOnceRestoreOnce ==
  /\ [](\A spy \in DOMAIN spiedFunctions :
          spiedFunctions[spy].original = Original(spy.member))
  /\ [][\A spy \in DOMAIN spiedFunctions \cap DOMAIN spiedFunctions' :
          spiedFunctions'[spy] = spiedFunctions[spy]]_vars
  /\ [](\A spy \in Spies : restoreCalls[spy] <= 1)

\* C14: mock of a module that has a registry entry invokes neither the
\* factory nor the host and leaves the registry (the entry of the first mock
\* included) and the host's substitutions as they are.
C14_MockIdempotent ==
  [][(/\ lastModuleOp'.op = "mock"
      /\ \E i \in 1..Len(mockedModules) :
            mockedModules[i].module = lastModuleOp'.module)
       => /\ ~lastModuleOp'.factoryCalled
          /\ ~lastModuleOp'.hostCalled
          /\ lastModuleOp'.thrown = "none"
          /\ UNCHANGED <<mockedModules, applied, substitutions, ctxRestores>>]_vars

\* mock("fs", factory) was called while "fs" was mocked: the first context
\* is still the registered one and the only one the host applied
C14_Witness ==
  /\ lastModuleOp.op = "mock" /\ lastModuleOp.module = "fs"
  /\ lastModuleOp.factory = "exports" /\ lastModuleOp.result = "already mocked"
  /\ mockedModules = <<[module |-> "fs", context |-> Context("fs", 1)]>>
  /\ applied["fs"] = 1

\* C15: once unmock(m) has returned, m has no registry entry; and a mock of
\* a module without entry that does not throw applies a substitution the
\* host had not applied before and registers its context, round after round.
C15_MockAfterUnmock ==
  /\ []((lastModuleOp.op = "unmock" /\ lastModuleOp.thrown = "none")
          => ~\E i \in 1..Len(mockedModules) :
                mockedModules[i].module = lastModuleOp.module)
  /\ [][(/\ lastModuleOp'.op = "mock"
          /\ lastModuleOp'.thrown = "none"
          /\ ~\E i \in 1..Len(mockedModules) :
                mockedModules[i].module = lastModuleOp'.module)
           => LET m == lastModuleOp'.module
                  fresh == Context(m, applied[m] + 1)
              IN /\ applied'[m] = applied[m] + 1
                 /\ fresh \notin substitutions /\ fresh \in substitutions'
                 /\ ctxRestores'[fresh] = 0
                 /\ mockedModules' = Append(mockedModules,
                                            [module |-> m, context |-> fresh])]_vars

\* Second round: "fs" is mocked again after mock and unmock
C15_Witness ==
  /\ lastModuleOp.op = "mock" /\ lastModuleOp.module = "fs"
  /\ lastModuleOp.result = "registered"
  /\ ctxRestores[Context("fs", 1)] = 1
  /\ Context("fs", 1) \notin substitutions
  /\ mockedModules = <<[module |-> "fs", context |-> Context("fs", 2)]>>
  /\ substitutions = {Context("fs", 2)}

\* C16: every module has at most one substitution applied and not restored,
\* and has one exactly when the registry holds an entry for it.
C16_OneLiveSubstitution ==
  \A m \in Modules :
    /\ Cardinality({ context \in substitutions : context.module = m }) <= 1
    /\ (\E i \in 1..Len(mockedModules) : mockedModules[i].module = m)
         <=> (\E context \in substitutions : context.module = m)

\* C17: an entry leaves the registry with the restore of its context invoked
\* exactly once; no context has its restore invoked twice; unmock of a module
\* without entry invokes no restore and changes nothing.
C17_RestoreOnceBeforeRemoval ==
  /\ [][\A i \in 1..Len(mockedModules) :
          (~\E j \in 1..Len(mockedModules') : mockedModules'[j] = mockedModules[i])
            => ctxRestores'[mockedModules[i].context] = 1]_vars
  /\ [](\A context \in Contexts : ctxRestores[context] <= 1)
  /\ [][(/\ lastModuleOp'.op = "unmock"
          /\ ~\E i \in 1..Len(mockedModules) :
                mockedModules[i].module = lastModuleOp'.module)
           => UNCHANGED <<mockedModules, moduleCache, applied, substitutions,
                          ctxRestores>>]_vars

\* C18: when the host rejects the substitution, mock logs the module name
\* and throws the host's error, the registry is as before and has no entry
\* for the module, and the next mock of that module is not short-circuited.
C18_HostRejection ==
  /\ [][(lastModuleOp'.op = "mock" /\ lastModuleOp'.result = "host rejected")
           => /\ lastModuleOp'.logged = lastModuleOp'.module
              /\ lastModuleOp'.thrown = "hostError"
              /\ UNCHANGED <<mockedModules, applied, substitutions>>]_vars
  /\ [](lastModuleOp.result = "host rejected"
          => ~\E i \in 1..Len(mockedModules) :
                mockedModules[i].module = lastModuleOp.module)
  /\ [][(/\ lastModuleOp.result = "host rejected"
          /\ lastModuleOp'.op = "mock"
          /\ lastModuleOp'.module = lastModuleOp.module)
           => lastModuleOp'.result # "already mocked"]_vars

\* The host has rejected "path" while "fs" is mocked
C18_Witness ==
  /\ lastModuleOp.op = "mock" /\ lastModuleOp.module = "path"
  /\ lastModuleOp.result = "host rejected" /\ lastModuleOp.hostCalled
  /\ lastModuleOp.logged = "path"
  /\ mockedModules = <<[module |-> "fs", context |-> Context("fs", 1)]>>

\* C19: a call test(name, x, body) whose second argument is neither callable
\* nor an options object fits neither calling convention: it throws, so no
\* registration reaches the host.
C19_MisshapenCallThrows ==
  (/\ input.kind = "test" /\ input.entry = "test"
   /\ ~IsFunction(input.a2) /\ ~IsObject(input.a2)
   /\ IsFunction(input.a3))
    => delegated = NoCall

\* C20 as stated: the counter test run with a budget of 2 ends in success on
\* its 2nd attempt with the counter at 2, the retry loop having logged 2
\* retry attempts.
C20_TwoRetriesLogged ==
  \A i \in 1..Len(runs) :
    (runs[i].pc = "done" /\ runs[i].retryCount = 2)
      => /\ runs[i].outcome = "pass"
         /\ runs[i].attempt = 1
         /\ Counter = 2
         /\ runs[i].logs = 2

\* C20, amended: the counter test run with a budget of 2 ends in success on
\* its 2nd attempt with the counter at 2; the retry loop has logged one retry
\* (for the failed attempt 1), the body has been invoked, and has logged its
\* own attempt line, twice.
C20_OneRetryLogged ==
  \A i \in 1..Len(runs) :
    (runs[i].pc = "done" /\ runs[i].retryCount = 2)
      => /\ runs[i].outcome = "pass"
         /\ runs[i].attempt = 1
         /\ Counter = 2
         /\ runs[i].invocations = 2
         /\ runs[i].logs = 1

\* The scenario itself: retryTimes(2) in the suite, the test registered in
\* it, run after the suite body returned, and passed
C20_Witness ==
  /\ Len(runs) = 1 /\ runs[1].pc = "done" /\ runs[1].outcome = "pass"
  /\ runs[1].retryCount = 2 /\ regRetry[1] = [retryCount |-> 2, suite |-> "A"]
  /\ currentRetryCount = 2 /\ describeStack = <<>>
  /\ Counter = 2 /\ runs[1].logs = 1

\* C21: isMockFunction returns the boolean true when the candidate carries
\* the mock marker and the boolean false for every other value, null,
\* undefined and the other falsy values included; it never throws.
C21_IsMockBoolean ==
  lastCall.api = "isMockFunction"
    => /\ lastCall.threw = "none"
       /\ lastCall.returned = Bool(HasMockMarker(lastCall.arg))

\* C23: with fake timers on, clearAllTimers leaves no timer pending and leaves
\* the fake timers on (the shim's flag and the host's), and a timer that was
\* discarded is never invoked by anything that follows.
C23_ClearAllDiscards ==
  /\ [][isFaking /\ ClearAllTimers
          => /\ \A callback \in Callbacks : timers'[callback].status # "pending"
             /\ isFaking' /\ mockTimers'.enabled]_vars
  /\ [][\A callback \in Callbacks :
          timers[callback].status = "cleared" => timers'[callback] = timers[callback]]_vars

\* Time was advanced past the due time of a discarded timer, which was not
\* invoked
C23_Witness ==
  /\ lastCall.api \in {"advanceTimersByTime", "runAllTimers"}
  /\ lastCall.threw = "none" /\ isFaking
  /\ \E callback \in Callbacks :
       /\ timers[callback].status = "cleared" /\ timers[callback].calls = 0
       /\ timers[callback].runAt <= mockTimers.now
  /\ \E callback \in Callbacks : timers[callback].calls = 1

\* C24: a timer scheduled while setTimeout is faked (its runAt is set) has
\* not been invoked while it is pending, and virtual time is then short of
\* its delay; it is invoked only by a step that advances virtual time (never
\* by the step scheduling it), once, when time has come to its delay counted
\* from its scheduling; advanceTimersByTime and runAllTimers invoke every
\* pending timer whose time has come; none is invoked a second time. This
\* holds for callback2, which callback1 schedules, as for the others.
C24_FiresOnceWhenDue ==
  /\ [](\A callback \in Callbacks :
         /\ timers[callback].runAt > 0
              => /\ timers[callback].runAt = timers[callback].setAt + timers[callback].delay
                 /\ timers[callback].calls <= 1
         /\ timers[callback].status = "pending"
              => /\ timers[callback].calls = 0
                 /\ mockTimers.enabled
                 /\ mockTimers.now < timers[callback].runAt)
  /\ [][\A callback \in Callbacks :
          /\ (timers'[callback].runAt > 0
                /\ timers'[callback].calls # timers[callback].calls)
             => (/\ timers[callback].status = "pending"
                 /\ timers'[callback].calls = 1
                 /\ lastCall'.api \in {"advanceTimersByTime", "runAllTimers"}
                 /\ mockTimers'.now >= timers[callback].setAt + timers[callback].delay)
          /\ (timers[callback].status = "pending"
                /\ lastCall'.api \in {"advanceTimersByTime", "runAllTimers"}
                /\ mockTimers'.now >= timers[callback].runAt)
             => timers'[callback].calls = 1]_vars

\* callback1 has scheduled callback2 and both have been invoked, under fake
\* timers
C24_Witness ==
  /\ isFaking
  /\ timers["callback1"].calls = 1 /\ timers["callback1"].runAt > 0
  /\ timers["callback2"].calls = 1
  /\ timers["callback2"].setAt >= timers["callback1"].runAt
  /\ timers["callback"].status = "pending"

\* C25: once useFakeTimers(config) has been called the host's timers are
\* enabled for the default APIs minus config.doNotFake, at virtual time
\* config.now, or 0 without one, and the call has not thrown; useRealTimers
\* called under fake timers leaves the host's timers disabled; useRealTimers
\* called otherwise changes nothing of the timers.
C25_UseFakeThenReal ==
  /\ [](lastCall.api = "useFakeTimers"
          => /\ lastCall.threw = "none"
             /\ isFaking
             /\ mockTimers.enabled
             /\ mockTimers.apis = DefaultApis \ lastCall.arg.doNotFake
             /\ \/ lastCall.arg.now = {} /\ mockTimers.now = 0
                \/ mockTimers.now \in lastCall.arg.now)
  /\ [](lastCall.api = "useRealTimers" /\ lastCall.hostCalls = 1
          => ~isFaking /\ ~mockTimers.enabled)
  /\ [][~isFaking /\ UseRealTimers => UNCHANGED timerVars]_vars

C26_SnapshotOutcome ==
  lastCall.api = "toMatchSnapshot"
    => IF lastCall.arg.context = 0 \/ ~lastCall.arg.hasAssert
         THEN lastCall.threw = "Error" /\ lastCall.hostCalls = 0
         ELSE /\ lastCall.threw = "none" /\ lastCall.hostCalls = 1
              /\ lastCall.returned.pass = ~lastCall.arg.throws
              /\ lastCall.arg.throws /\ lastCall.arg.message # ""
                   => lastCall.returned.message = lastCall.arg.message

\* The body of a test matched a snapshot and the host threw
C26_Witness ==
  /\ lastCall.api = "toMatchSnapshot"
  /\ snapshotCall.by # 0 /\ lastCall.arg.context # 0
  /\ lastCall.arg.throws
  /\ lastCall.returned = [pass |-> FALSE, message |-> "Snapshot mismatch"]

\* C27: the seed is an integer from 0 to 999999, getSeed returns it, and no
\* operation changes it: every call of getSeed returns the same number.
C27_SeedFixed ==
  /\ [](seed \in 0..999999)
  /\ [](lastCall.api = "getSeed" => lastCall.returned = Num(seed))
  /\ [][seed' = seed]_vars

\* getSeed returned a seed of the upper half after the other parts of the shim were
\* used
C27_Witness ==
  /\ lastCall.api = "getSeed" /\ lastCall.returned = Num(seed) /\ seed > 500000
  /\ currentRetryCount > 0 /\ createdMocks # {} /\ isFaking

\* C28: the attempts of a test come one after the other: while the test runs
\* exactly one attempt is unsettled, the one after the failures counted so
\* far; an attempt begins either as the first, when the host invokes the
\* test, or in the step in which the failure of the attempt before it is
\* caught; once an attempt has succeeded the run is over and no attempt is
\* ever begun again.
C28_AttemptsInSequence ==
  /\ [](\A i \in 1..Len(runs) :
         /\ runs[i].pc = "body" => runs[i].invocations = runs[i].attempt + 1
         /\ runs[i].bodyOk => runs[i].pc = "done")
  /\ [][\A i \in 1..Len(runs) :
          /\ runs[i].bodyOk => runs'[i].invocations = runs[i].invocations
          /\ runs'[i].invocations # runs[i].invocations
               => /\ runs'[i].invocations = runs[i].invocations + 1
                  /\ runs'[i].pc = "body"
                  /\ IF runs[i].pc = "idle"
                       THEN runs[i].invocations = 0
                       ELSE /\ runs[i].pc = "body"
                            /\ runs'[i].attempt = runs[i].attempt + 1
                            /\ runs'[i].lastThrown
                                 \in { Thrown(kind, runs[i].invocations) : kind \in ThrownKinds }]_vars

\* The third attempt of a test succeeded
C28_Witness ==
  \E i \in 1..Len(runs) :
    /\ runs[i].bodyOk /\ runs[i].pc = "done"
    /\ runs[i].invocations = 3 /\ runs[i].attempt = 2

\* C29: for a test run with budget N = retryCount of whose attempts K have
\* failed so far, min(K, N) retry diagnostics have been logged; a diagnostic
\* is logged in the step that catches a failure and begins the next attempt,
\* and the number it prints, attempt + 1, is its rank among the diagnostics
\* of the run.
C29_DiagnosticPerRetry ==
  /\ [](\A i \in 1..Len(runs) :
         LET failed == runs[i].invocations
                         - (IF runs[i].pc = "body" THEN 1 ELSE 0)
                         - (IF runs[i].bodyOk THEN 1 ELSE 0)
         IN runs[i].logs = IF failed < runs[i].retryCount
                             THEN failed ELSE runs[i].retryCount)
  /\ [][\A i \in 1..Len(runs) :
          runs'[i].logs # runs[i].logs
            => /\ runs'[i].logs = runs[i].logs + 1
               /\ runs[i].attempt + 1 = runs'[i].logs
               /\ runs'[i].invocations = runs[i].invocations + 1]_vars

\* C30: a step that sets the retry count to n (sinceSet' is n) makes n the
\* default and, when the describe stack is not empty, the count of its top
\* entry; the stack keeps its depth, every entry its name and every entry
\* below the top its count. getCurrentRetryCount returns the count of the
\* top entry, or the default when the stack is empty, and leaves the
\* registry as it was.
C30_SetAndGetRetryCount ==
  /\ [][sinceSet' >= 0
          => /\ currentRetryCount' = sinceSet'
             /\ Len(describeStack') = Len(describeStack)
             /\ \A k \in 1..Len(describeStack) :
                  /\ describeStack'[k].name = describeStack[k].name
                  /\ describeStack'[k].retryCount =
                       IF k = Len(describeStack) THEN sinceSet'
                       ELSE describeStack[k].retryCount]_vars
  /\ [][(lastCall' # lastCall /\ lastCall'.api = "getCurrentRetryCount")
          => /\ lastCall'.threw = "none"
             /\ lastCall'.returned =
                  Num(IF describeStack = <<>> THEN currentRetryCount
                      ELSE describeStack[Len(describeStack)].retryCount)
             /\ UNCHANGED <<describeStack, currentRetryCount, onlyMode,
                            currentTestContext>>]_vars

\* The count was set inside a nested block whose parent keeps another count,
\* and read back
C30_Witness ==
  /\ Len(describeStack) = 2 /\ sinceSet >= 0
  /\ describeStack[1].retryCount # sinceSet
  /\ describeStack[1].retryCount # 0
  /\ lastCall.api = "getCurrentRetryCount" /\ lastCall.returned = Num(sinceSet)

\* C31: when no suite body throws, the describe stack has one entry for each
\* suite body that is executing, in the order of nesting and with the names
\* of the suites: the top entry is the innermost suite's, and the stack is
\* empty when no suite body is executing; popDescribeBlock called on the
\* empty stack leaves it empty and does not throw.
C31_StackMirrorsNesting ==
  /\ [](/\ Len(describeStack) = Len(frames)
        /\ \A k \in 1..Len(frames) : describeStack[k].name = frames[k].name)
  /\ [][(lastCall'.api = "popDescribeBlock" /\ lastCall' # lastCall
           /\ describeStack = <<>>)
          => describeStack' = <<>> /\ lastCall'.threw = "none"]_vars

\* Suite B is registering inside suite A, after popDescribeBlock was called
\* on the empty stack
C31_Witness ==
  /\ Len(frames) = 2 /\ Len(describeStack) = 2
  /\ frames[1].name = "A" /\ frames[2].name = "B"
  /\ describeStack[2].name = "B"
  /\ lastCall.api = "popDescribeBlock"

\* C32: no step removes a member of the tracked mocks; registerMock returns
\* its argument, which is tracked afterwards, and changes nothing when it
\* was tracked already; clearAllMocks and resetAllMocks invoke the
\* capability once on every tracked mock of the library, whether or not the
\* spy is still in the map of spies, and not at all on a tracked value that
\* lacks the capability.
C32_TrackedMocksGrow ==
  /\ [][createdMocks \subseteq createdMocks']_vars
  /\ [][(lastCall' # lastCall /\ lastCall'.api = "registerMock")
          => /\ lastCall'.returned = lastCall'.arg
             /\ lastCall'.threw = "none"
             /\ createdMocks' = createdMocks \cup {lastCall'.arg}]_vars
  /\ [][sweepCalls' # sweepCalls
          => /\ DOMAIN sweepCalls'.invoked = createdMocks
             /\ createdMocks' = createdMocks
             /\ \A mock \in createdMocks :
                  sweepCalls'.invoked[mock] = IF mock = PlainObject THEN 0 ELSE 1]_vars

\* resetAllMocks after restoreAllMocks: the restored spy and the mock
\* function were reset, the object without the capability was skipped
C32_Witness ==
  /\ sweepCalls.op = "resetAllMocks"
  /\ spiedFunctions = EmptyMap
  /\ \E spy \in Spies :
       /\ spy \in DOMAIN sweepCalls.invoked
       /\ restoreCalls[spy] > 0 /\ sweepCalls.invoked[spy] = 1
  /\ {MockFn, PlainObject} \subseteq DOMAIN sweepCalls.invoked
  /\ sweepCalls.invoked[MockFn] = 1 /\ sweepCalls.invoked[PlainObject] = 0

\* C33: the module cache changes only in a step of cacheModule, which writes
\* the entry of its module and no other, or of resetModules; mock and unmock
\* leave it as it was; once resetModules has been called the cache is empty;
\* requireMock(m) returns the value the cache holds for m when it holds one.
C33_CacheIndependent ==
  /\ [][moduleCache' # moduleCache
          => \/ /\ lastModuleOp'.op = "cacheModule"
                /\ DOMAIN moduleCache' = DOMAIN moduleCache \cup {lastModuleOp'.module}
                /\ \A moduleName \in DOMAIN moduleCache :
                     moduleName # lastModuleOp'.module
                       => moduleCache'[moduleName] = moduleCache[moduleName]
             \/ lastModuleOp'.op = "resetModules"]_vars
  /\ [][(lastModuleOp' # lastModuleOp /\ lastModuleOp'.op \in {"mock", "unmock"})
          => moduleCache' = moduleCache]_vars
  /\ [](lastModuleOp.op = "resetModules" => moduleCache = EmptyMap)
  /\ [][(lastCall' # lastCall /\ lastCall'.api = "requireMock"
           /\ lastCall'.arg \in DOMAIN moduleCache)
          => lastCall'.returned = moduleCache[lastCall'.arg]]_vars

C35_FlagIsHostState ==
  /\ [](isFaking <=> mockTimers.enabled)
  /\ [](lastCall.api = "useFakeTimers" => lastCall.threw = "none")
  /\ [](lastCall.api = "useRealTimers" => ~mockTimers.enabled)

\* C36: from the invocation of a test on, the retry count it runs with does
\* not change, whatever retryTimes calls, pushes and pops of describe blocks
\* happen meanwhile; the test is never invoked more than that count plus one
\* times, and a test that fails has been invoked exactly that many times.
C36_BudgetFixed ==
  /\ [][\A i \in 1..Len(runs) :
          runs[i].pc # "idle" => runs'[i].retryCount = runs[i].retryCount]_vars
  /\ [](\A i \in 1..Len(runs) :
         /\ runs[i].invocations <= runs[i].retryCount + 1
         /\ runs[i].outcome = "fail" => runs[i].invocations = runs[i].retryCount + 1)

\* The one retry of a test is running, with a count that the registry no
\* longer gives, while the body of a suite pushed meanwhile is executing
C36_Witness ==
  \E i \in 1..Len(runs) :
    /\ runs[i].pc = "body" /\ runs[i].attempt = 1
    /\ runs[i].retryCount = 1 /\ runs[i].invocations = 2
    /\ frames # <<>> /\ describeStack # <<>>
    /\ GetCurrentRetryCount(describeStack, currentRetryCount) = MaxRetry

\* C37: the slot is empty exactly as long as no test has been invoked; it
\* changes only when a test is invoked, to the handle of that test, and
\* every invocation writes it: it holds the handle of the test invoked last,
\* whether that test is running or over. toMatchSnapshot evaluated outside
\* every test body while no body is running, once the slot is filled, does
\* not raise the missing-context error: it uses the handle in the slot.
C37_SlotNeverCleared ==
  /\ [](currentTestContext = 0 <=> \A i \in 1..Len(runs) : runs[i].pc = "idle")
  /\ [][\A i \in 1..Len(runs) :
          (runs[i].pc = "idle" /\ runs'[i].pc # "idle") => currentTestContext' = i]_vars
  /\ [][currentTestContext' # currentTestContext
          => \E i \in 1..Len(runs) : runs[i].pc = "idle" /\ runs'[i].pc # "idle"]_vars
  /\ [][(snapshotCall' # snapshotCall /\ snapshotCall'.by = 0
           /\ currentTestContext # 0
           /\ \A i \in 1..Len(runs) : runs[i].pc # "body")
          => /\ snapshotCall'.ctx = currentTestContext
             /\ runs[currentTestContext].pc = "done"
             /\ lastCall'.arg.hasAssert => lastCall'.threw = "none"]_vars

\* Both tests are over, the slot holds the handle of the second, and a
\* snapshot matched outside every test body was handed to the host with it
C37_Witness ==
  /\ Len(runs) = 2 /\ runs[1].pc = "done" /\ runs[2].pc = "done"
  /\ currentTestContext = 2
  /\ snapshotCall.by = 0 /\ snapshotCall.ctx = 2
  /\ lastCall.api = "toMatchSnapshot" /\ lastCall.threw = "none"
  /\ lastCall.hostCalls = 1

\* C38: a clearAllTimers called under fake timers leaves the set of faked
\* APIs and the virtual time of the host as they were before the call.
C38_ClearKeepsApisAndTime ==
  [][(isFaking /\ lastCall'.api = "clearAllTimers")
       => /\ mockTimers'.apis = mockTimers.apis
          /\ mockTimers'.now = mockTimers.now]_vars

====
